---- MODULE Spec2Model ----
(***************************************************************************)
(* The bank service of server.py: BankServiceServicer's five RPC handlers  *)
(* run on a pool of worker threads against one Redis store and one         *)
(* registry of per-account locks.  Every access to shared state (a Redis   *)
(* command, a threading.Lock acquire or release, a read or write of the    *)
(* account_locks dictionary) is one atomic step of the thread making it.   *)
(***************************************************************************)
EXTENDS Integers, Sequences, FiniteSets, TLC

\* ------------------------------------------------------------------ bounds
\* worker threads serving calls at the same time (the pool of server.py:152,
\* scaled down)
NumThreads == 2
\* calls invoked in one behaviour
MaxCalls == 2

Threads == 1..NumThreads
Ids == {"A1", "ZZZ"}

\* ------------------------------------------------------------------ floats
\* request.amount, request.annual_interest_rate and a balance are IEEE
\* doubles: a finite value (integral ones suffice here), an infinity, or NaN.
Fin(n) == [k |-> "fin", v |-> n]
PInf == [k |-> "inf", v |-> 1]
NInf == [k |-> "inf", v |-> -1]
NaN == [k |-> "nan", v |-> 0]

\* x < y on doubles: false as soon as one side is NaN
FLt(x, y) ==
    /\ x.k # "nan"
    /\ y.k # "nan"
    /\ \/ x.k = "fin" /\ y.k = "fin" /\ x.v < y.v
       \/ x.k = "fin" /\ y = PInf
       \/ x = NInf /\ y # NInf

\* x <= y on doubles: false as soon as one side is NaN
FLe(x, y) == x.k # "nan" /\ y.k # "nan" /\ (x = y \/ FLt(x, y))

FNeg(x) == IF x.k = "nan" THEN NaN ELSE [k |-> x.k, v |-> -x.v]

FAdd(x, y) ==
    IF x.k = "nan" \/ y.k = "nan" THEN NaN
    ELSE IF x.k = "inf" /\ y.k = "inf" THEN (IF x = y THEN x ELSE NaN)
    ELSE IF x.k = "inf" THEN x
    ELSE IF y.k = "inf" THEN y
    ELSE Fin(x.v + y.v)

FSub(x, y) == FAdd(x, FNeg(y))

Sign(n) == IF n > 0 THEN 1 ELSE IF n < 0 THEN -1 ELSE 0

\* balance * (rate / 100.0); the finite inputs of the model are chosen so
\* that the quotient is exact
FMulPercent(b, rate) ==
    IF b.k = "nan" \/ rate.k = "nan" THEN NaN
    ELSE IF b.k = "fin" /\ rate.k = "fin" THEN Fin((b.v * rate.v) \div 100)
    ELSE IF Sign(b.v) * Sign(rate.v) = 0 THEN NaN
    ELSE [k |-> "inf", v |-> Sign(b.v) * Sign(rate.v)]

\* ------------------------------------------------------------------ inputs
AccountTypes == {"savings", "checking"}
TypeInputs == AccountTypes \cup {"gold"}
Amounts == {Fin(-5), Fin(0), Fin(1), NaN}
Rates == {Fin(0), Fin(100)}

\* the handlers that work under the account lock
Locked == {"Deposit", "Withdraw", "CalculateInterest"}

\* the requests a client can send: CreateAccount carries a type, Deposit and
\* Withdraw an amount, CalculateInterest a rate (kept in the amount field).
\* Every kind of request is sent for "A1"; "ZZZ" is an account nobody creates,
\* queried and deposited to beside the calls for "A1".
Request(op, id, ty, x) == [op |-> op, id |-> id, account_type |-> ty, amount |-> x]

Requests ==
    {Request("CreateAccount", "A1", ty, Fin(0)) : ty \in TypeInputs}
    \cup {Request("GetBalance", i, "", Fin(0)) : i \in Ids}
    \cup {Request("Deposit", "A1", "", x) : x \in Amounts}
    \cup {Request("Withdraw", "A1", "", x) : x \in {Fin(0), Fin(1)}}
    \cup {Request("CalculateInterest", "A1", "", x) : x \in Rates}
    \cup {Request("Deposit", "ZZZ", "", x) : x \in {Fin(0), Fin(1)}}

\* ------------------------------------------------------------------ Redis
\* A key holds a hash of byte strings; a hash with no field set does not
\* exist.  redis-py sends a float as its repr() ('1.0', 'inf', '-inf', 'nan')
\* and get_account_data reads it back with float().
Unset == [text |-> "", digits |-> 0]
NoHash == [account_type |-> "", balance |-> Unset]

ReprFloat(x) ==
    IF x.k = "fin" THEN [text |-> "digits", digits |-> x.v]
    ELSE IF x.k = "nan" THEN [text |-> "nan", digits |-> 0]
    ELSE IF x.v > 0 THEN [text |-> "inf", digits |-> 0]
    ELSE [text |-> "-inf", digits |-> 0]

ParseFloat(b) ==
    CASE b.text = "digits" -> Fin(b.digits)
      [] b.text = "nan" -> NaN
      [] b.text = "inf" -> PInf
      [] b.text = "-inf" -> NInf

\* redis_client.exists(key)
HashExists(h) == h # NoHash

\* (a record created with an opening balance of 1)
HMSet_opening(h, t) == [account_type |-> t, balance |-> ReprFloat(Fin(1))]

\* redis_client.hmset(key, {'account_type': t, 'balance': 0.0})
HMSet(h, t) == [account_type |-> t, balance |-> ReprFloat(Fin(0))]

\* (an hset that is not carried out)
HSetBalance_dropped(h, x) == h

\* redis_client.hset(key, 'balance', x): sets the field, creating the hash
\* when the key holds none
HSetBalance(h, x) == [h EXCEPT !.balance = ReprFloat(x)]

\* what get_account_data returns: None for an empty reply, the decoded
\* record otherwise; a reply that lacks one of the two fields raises KeyError
NoneData == [tag |-> "None", account_type |-> "", balance |-> Fin(0)]
KeyErrorData == [tag |-> "KeyError", account_type |-> "", balance |-> Fin(0)]

\* (a lookup that takes a missing record for an empty account)
get_account_data_default(h) ==
    IF ~HashExists(h) THEN [tag |-> "data", account_type |-> "", balance |-> Fin(0)]
    ELSE [tag |-> "data", account_type |-> h.account_type,
          balance |-> ParseFloat(h.balance)]

get_account_data(h) ==
    IF ~HashExists(h) THEN NoneData
    ELSE IF h.account_type = "" \/ h.balance = Unset THEN KeyErrorData
    ELSE [tag |-> "data", account_type |-> h.account_type,
          balance |-> ParseFloat(h.balance)]

\* ------------------------------------------------------------------- state
VARIABLES
    redis,            \* redis[id]: the hash stored under "account:<id>"
    account_locks,    \* self.account_locks: id -> index into locks, 0 = no entry
    locks,            \* the threading.Lock objects made so far: holder, 0 = free
    lock_dict_lock,   \* self.lock_dict_lock: holder, 0 = free
    thread,           \* thread[t]: the frame of the call worker t is serving
    calls,            \* calls invoked so far
    initial,          \* history: the store as the server found it
    serial,           \* history: per id, the balance the locked calls give when
                      \* applied one at a time in lock order
    log,              \* history: per id, what was invoked on it
    trace             \* history: the calls a one-at-a-time client got back

vars == <<redis, account_locks, locks, lock_dict_lock, thread, calls,
          initial, serial, log, trace>>

NoResult == [code |-> "", balance |-> Fin(0)]
Status(c) == [code |-> c, balance |-> Fin(0)]
Ok(b) == [code |-> "OK", balance |-> b]

Idle ==
    [pc |-> "idle", op |-> "", id |-> "", account_type |-> "", amount |-> Fin(0),
     account_lock |-> 0, account_data |-> NoneData, result |-> NoResult,
     existed |-> FALSE]

\* the stores a server can start on: records earlier runs left behind
InitHashes ==
    {NoHash, HMSet(NoHash, "savings"),
     HSetBalance(HMSet(NoHash, "checking"), Fin(2))}

BalanceOf(h) == IF HashExists(h) THEN ParseFloat(h.balance) ELSE Fin(0)

NoLog == [creates |-> FALSE, ones |-> 0, others |-> FALSE, overlap |-> FALSE]

Init ==
    /\ redis \in {[i \in Ids |-> IF i = "A1" THEN h ELSE NoHash] : h \in InitHashes}
    /\ account_locks = [i \in Ids |-> 0]
    /\ locks = <<>>
    /\ lock_dict_lock = 0
    /\ thread = [t \in Threads |-> Idle]
    /\ calls = 0
    /\ initial = redis
    /\ serial = [i \in Ids |-> BalanceOf(redis[i])]
    /\ log = [i \in Ids |-> NoLog]
    /\ trace = <<>>

\* ----------------------------------------------------------------- helpers
Set(t, f) == thread' = [thread EXCEPT ![t] = f]

\* the frame after a handler returned (or raised) with result r
Finish(f, r) == [f EXCEPT !.pc = "done", !.result = r]

\* (acquire() and release() by hand, with no try/finally: an exception skips
\* the release)
LeaveWith_leaky(f, r) ==
    IF r.code = "UNKNOWN" THEN [f EXCEPT !.pc = "done", !.result = r]
    ELSE [f EXCEPT !.pc = "release", !.result = r]

\* leaving the body of "with account_lock:" with result r, by return or by
\* an exception: the lock is released on the way out
LeaveWith(f, r) == [f EXCEPT !.pc = "release", !.result = r]

\* (the amount and rate checks written with < in place of <=)
InvalidArgument_strict(f) ==
    IF f.op = "CreateAccount" THEN f.account_type \notin {"savings", "checking"}
    ELSE IF f.op \in Locked THEN FLt(f.amount, Fin(0))
    ELSE FALSE

\* server.py:38, 74, 97, 125: the argument checks
InvalidArgument(f) ==
    IF f.op = "CreateAccount" THEN f.account_type \notin {"savings", "checking"}
    ELSE IF f.op \in Locked THEN FLe(f.amount, Fin(0))
    ELSE FALSE

\* (a registry without its lock: the lookup is entered at any time)
DictLockFree_unguarded == TRUE

\* threading.Lock: acquire() goes through only while no thread holds the lock
DictLockFree == lock_dict_lock = 0

\* (a handler that does not wait for the account lock)
AccountLockFree_unguarded(h) == TRUE

\* threading.Lock: acquire() goes through only while no thread holds the lock
AccountLockFree(h) == locks[h] = 0

\* (interest for one day: the rate divided by 365 before it is applied)
NewBalance_daily(op, balance, x) ==
    CASE op = "Deposit" -> FAdd(balance, x)
      [] op = "Withdraw" -> FSub(balance, x)
      [] op = "CalculateInterest" ->
            FAdd(balance, IF balance.k = "fin" /\ x.k = "fin"
                          THEN Fin((balance.v * x.v) \div 36500)
                          ELSE FMulPercent(balance, x))

\* the balance a locked call computes from the balance it read
NewBalance(op, balance, x) ==
    CASE op = "Deposit" -> FAdd(balance, x)
      [] op = "Withdraw" -> FSub(balance, x)
      [] op = "CalculateInterest" -> FAdd(balance, FMulPercent(balance, x))

\* (a Withdraw without the insufficient-funds check)
Insufficient_never(op, balance, x) == FALSE

\* (a Withdraw that refuses to take the whole balance: <= for <)
Insufficient_strict(op, balance, x) == op = "Withdraw" /\ FLe(balance, x)

\* server.py:110: the insufficient-funds check of Withdraw
Insufficient(op, balance, x) == op = "Withdraw" /\ FLt(balance, x)

\* history: applying the call to the serial balance
SerialStep(op, balance, x) ==
    IF Insufficient(op, balance, x) THEN balance ELSE NewBalance(op, balance, x)

\* a call in flight: invoked and not yet returned
InFlight(t) == thread[t].pc \notin {"idle", "done"}

\* history: the log of an id after worker t took request r for it
Logged(l, t, r) ==
    LET seen == [l EXCEPT !.overlap =
                    @ \/ \E u \in Threads \ {t} : InFlight(u) /\ thread[u].id = r.id] IN
    IF r.op = "CreateAccount" THEN [seen EXCEPT !.creates = TRUE, !.others = TRUE]
    ELSE IF r.op = "Deposit" /\ r.amount = Fin(1) THEN [seen EXCEPT !.ones = @ + 1]
    ELSE [seen EXCEPT !.others = TRUE]

Taint(i) == log' = [log EXCEPT ![i].others = TRUE]

\* ----------------------------------------------------------------- actions
\* a client's call reaches a worker that serves no call (it never served one,
\* or the call it served has returned).  The workers of the pool are
\* interchangeable: the call goes to the first free one.
InvokeOf(t, requests) ==
    /\ ~InFlight(t)
    /\ \A u \in Threads : u < t => InFlight(u)
    /\ calls < MaxCalls
    /\ \E r \in requests :
        /\ Set(t, [Idle EXCEPT !.pc = "call", !.op = r.op, !.id = r.id,
                               !.account_type = r.account_type,
                               !.amount = r.amount,
                               !.existed = HashExists(redis[r.id])])
        /\ log' = [log EXCEPT ![r.id] = Logged(@, t, r)]
    /\ calls' = calls + 1
    /\ UNCHANGED <<trace, redis, account_locks, locks, lock_dict_lock, initial, serial>>

Invoke(t) == InvokeOf(t, Requests)

\* server.py:38-41, 74-77, 97-100, 125-128
Reject(t) ==
    /\ thread[t].pc = "call"
    /\ InvalidArgument(thread[t])
    /\ Set(t, Finish(thread[t], Status("INVALID_ARGUMENT")))
    /\ UNCHANGED <<trace, redis, account_locks, locks, lock_dict_lock, calls,
                   initial, serial, log>>

\* (a CreateAccount without the existence check)
CreateAccountExists_unchecked(t) ==
    /\ thread[t].pc = "call"
    /\ thread[t].op = "CreateAccount"
    /\ ~InvalidArgument(thread[t])
    /\ Set(t, [thread[t] EXCEPT !.pc = "hmset"])
    /\ UNCHANGED <<trace, redis, account_locks, locks, lock_dict_lock, calls,
                   initial, serial, log>>

\* (a CreateAccount that looks the id up before it checks the type)
CreateAccountExists_first(t) ==
    LET f == thread[t] IN
    /\ f.pc = "call"
    /\ f.op = "CreateAccount"
    /\ Set(t, IF HashExists(redis[f.id]) THEN Finish(f, Status("ALREADY_EXISTS"))
              ELSE IF InvalidArgument(f) THEN Finish(f, Status("INVALID_ARGUMENT"))
              ELSE [f EXCEPT !.pc = "hmset"])
    /\ UNCHANGED <<trace, redis, account_locks, locks, lock_dict_lock, calls,
                   initial, serial, log>>

\* server.py:44-47: CreateAccount asks Redis whether the key exists
CreateAccountExists(t) ==
    LET f == thread[t] IN
    /\ f.pc = "call"
    /\ f.op = "CreateAccount"
    /\ ~InvalidArgument(f)
    /\ Set(t, IF HashExists(redis[f.id]) THEN Finish(f, Status("ALREADY_EXISTS"))
              ELSE [f EXCEPT !.pc = "hmset"])
    /\ UNCHANGED <<trace, redis, account_locks, locks, lock_dict_lock, calls,
                   initial, serial, log>>

\* server.py:50-58: CreateAccount writes the new record
CreateAccountWrite(t) ==
    LET f == thread[t] IN
    /\ f.pc = "hmset"
    /\ redis' = [redis EXCEPT ![f.id] = HMSet(@, f.account_type)]
    /\ Set(t, Finish(f, Ok(Fin(0))))
    /\ UNCHANGED <<trace, account_locks, locks, lock_dict_lock, calls,
                   initial, serial, log>>

\* (a GetBalance that reads only while no call holds the lock of the id)
GetBalance_locked(t) ==
    LET f == thread[t]
        d == get_account_data(redis[f.id]) IN
    /\ f.pc = "call"
    /\ f.op = "GetBalance"
    /\ account_locks[f.id] # 0 => locks[account_locks[f.id]] = 0
    /\ Set(t, IF d = NoneData THEN Finish(f, Status("NOT_FOUND"))
              ELSE IF d = KeyErrorData THEN Finish(f, Status("UNKNOWN"))
              ELSE Finish(f, Ok(d.balance)))
    /\ UNCHANGED <<trace, redis, account_locks, locks, lock_dict_lock, calls,
                   initial, serial, log>>

\* server.py:60-71
GetBalance(t) ==
    LET f == thread[t]
        d == get_account_data(redis[f.id]) IN
    /\ f.pc = "call"
    /\ f.op = "GetBalance"
    /\ Set(t, IF d = NoneData THEN Finish(f, Status("NOT_FOUND"))
              ELSE IF d = KeyErrorData THEN Finish(f, Status("UNKNOWN"))
              ELSE Finish(f, Ok(d.balance)))
    /\ UNCHANGED <<trace, redis, account_locks, locks, lock_dict_lock, calls,
                   initial, serial, log>>

\* server.py:18: get_account_lock enters "with self.lock_dict_lock"
GetAccountLockEnter(t) ==
    LET f == thread[t] IN
    /\ f.pc = "call"
    /\ f.op \in Locked
    /\ ~InvalidArgument(f)
    /\ DictLockFree
    /\ lock_dict_lock' = t
    /\ Set(t, [f EXCEPT !.pc = "gal_check"])
    /\ UNCHANGED <<trace, redis, account_locks, locks, calls, initial, serial, log>>

\* (a lookup without the "not in" test: every call installs a new Lock)
GetAccountLockCheck_always_new(t) ==
    /\ thread[t].pc = "gal_check"
    /\ Set(t, [thread[t] EXCEPT !.pc = "gal_insert"])
    /\ UNCHANGED <<trace, redis, account_locks, locks, lock_dict_lock, calls,
                   initial, serial, log>>

\* server.py:19: is the id in the dictionary?
GetAccountLockCheck(t) ==
    LET f == thread[t] IN
    /\ f.pc = "gal_check"
    /\ Set(t, [f EXCEPT !.pc = IF account_locks[f.id] = 0 THEN "gal_insert"
                                ELSE "gal_return"])
    /\ UNCHANGED <<trace, redis, account_locks, locks, lock_dict_lock, calls,
                   initial, serial, log>>

\* (one Lock for the whole bank: every id is given the same object)
GetAccountLockInsert_shared(t) ==
    LET f == thread[t] IN
    /\ f.pc = "gal_insert"
    /\ locks' = IF locks = <<>> THEN <<0>> ELSE locks
    /\ account_locks' = [account_locks EXCEPT ![f.id] = 1]
    /\ Set(t, [f EXCEPT !.pc = "gal_return"])
    /\ UNCHANGED <<trace, redis, lock_dict_lock, calls, initial, serial, log>>

\* server.py:20: a new Lock goes into the dictionary
GetAccountLockInsert(t) ==
    LET f == thread[t] IN
    /\ f.pc = "gal_insert"
    /\ locks' = Append(locks, 0)
    /\ account_locks' = [account_locks EXCEPT ![f.id] = Len(locks) + 1]
    /\ Set(t, [f EXCEPT !.pc = "gal_return"])
    /\ UNCHANGED <<trace, redis, lock_dict_lock, calls, initial, serial, log>>

\* (a lookup that returns without giving lock_dict_lock back)
GetAccountLockReturn_held(t) ==
    LET f == thread[t] IN
    /\ f.pc = "gal_return"
    /\ Set(t, [f EXCEPT !.pc = "acquire", !.account_lock = account_locks[f.id]])
    /\ UNCHANGED <<trace, redis, account_locks, locks, lock_dict_lock, calls,
                   initial, serial, log>>

\* server.py:21: the dictionary's lock is returned and lock_dict_lock released
GetAccountLockReturn(t) ==
    LET f == thread[t] IN
    /\ f.pc = "gal_return"
    /\ lock_dict_lock' = 0
    /\ Set(t, [f EXCEPT !.pc = "acquire", !.account_lock = account_locks[f.id]])
    /\ UNCHANGED <<trace, redis, account_locks, locks, calls, initial, serial, log>>

\* server.py:80, 103, 131: "with account_lock" is entered
Acquire(t) ==
    LET f == thread[t] IN
    /\ f.pc = "acquire"
    /\ AccountLockFree(f.account_lock)
    /\ locks' = [locks EXCEPT ![f.account_lock] = t]
    /\ Set(t, [f EXCEPT !.pc = "read"])
    /\ UNCHANGED <<trace, redis, account_locks, lock_dict_lock, calls,
                   initial, serial, log>>

\* server.py:81-85, 104-108, 132-136: the record is read under the lock
Read(t) ==
    LET f == thread[t]
        d == get_account_data(redis[f.id]) IN
    /\ f.pc = "read"
    /\ Set(t, IF d = NoneData THEN LeaveWith(f, Status("NOT_FOUND"))
              ELSE IF d = KeyErrorData THEN LeaveWith(f, Status("UNKNOWN"))
              ELSE [f EXCEPT !.pc = "write", !.account_data = d])
    /\ UNCHANGED <<trace, redis, account_locks, locks, lock_dict_lock, calls,
                   initial, serial, log>>

\* server.py:110-113: Withdraw finds the balance it read too small
Refuse(t) ==
    LET f == thread[t] IN
    /\ f.pc = "write"
    /\ Insufficient(f.op, f.account_data.balance, f.amount)
    /\ Set(t, LeaveWith(f, Status("FAILED_PRECONDITION")))
    /\ UNCHANGED <<trace, redis, account_locks, locks, lock_dict_lock, calls,
                   initial, serial, log>>

\* server.py:87-94, 115-122, 138-149: the new balance is computed and stored
Write(t) ==
    LET f == thread[t]
        new_balance == NewBalance(f.op, f.account_data.balance, f.amount) IN
    /\ f.pc = "write"
    /\ ~Insufficient(f.op, f.account_data.balance, f.amount)
    /\ redis' = [redis EXCEPT ![f.id] = HSetBalance(@, new_balance)]
    /\ Set(t, LeaveWith(f, Ok(new_balance)))
    /\ serial' = [serial EXCEPT ![f.id] = SerialStep(f.op, @, f.amount)]
    /\ UNCHANGED <<trace, account_locks, locks, lock_dict_lock, calls, initial, log>>

\* (a handler that drops the id's registry entry when it is done with it)
Release_evicting(t) ==
    LET f == thread[t] IN
    /\ f.pc = "release"
    /\ locks' = [locks EXCEPT ![f.account_lock] = 0]
    /\ account_locks' = [account_locks EXCEPT ![f.id] = 0]
    /\ Set(t, [f EXCEPT !.pc = "done", !.account_lock = 0, !.account_data = NoneData])
    /\ UNCHANGED <<trace, redis, lock_dict_lock, calls, initial, serial, log>>

\* the "with account_lock" block is left: the lock is released
Release(t) ==
    LET f == thread[t] IN
    /\ f.pc = "release"
    /\ locks' = [locks EXCEPT ![f.account_lock] = 0]
    /\ Set(t, [f EXCEPT !.pc = "done", !.account_lock = 0, !.account_data = NoneData])
    /\ UNCHANGED <<trace, redis, account_locks, lock_dict_lock, calls,
                   initial, serial, log>>

\* a Redis command (exists, hmset, hgetall, hset) raises before the server
\* carried it out (connection lost): the exception leaves the handler, through
\* the with block when inside one
Fault(t) ==
    LET f == thread[t] IN
    /\ \/ f.pc = "call" /\ f.op \in {"CreateAccount", "GetBalance"} /\ ~InvalidArgument(f)
       \/ f.pc \in {"hmset", "read", "write"}
    /\ ~(f.pc = "write" /\ Insufficient(f.op, f.account_data.balance, f.amount))
    /\ Set(t, IF f.pc \in {"read", "write"} THEN LeaveWith(f, Status("UNKNOWN"))
              ELSE Finish(f, Status("UNKNOWN")))
    /\ Taint(f.id)
    /\ UNCHANGED <<trace, redis, account_locks, locks, lock_dict_lock, calls, initial, serial>>

\* a writing Redis command (hmset, hset) is carried out by the server but its
\* reply is lost: the client raises although the record was written
FaultAfter(t) ==
    LET f == thread[t]
        new_balance == NewBalance(f.op, f.account_data.balance, f.amount) IN
    /\ f.pc \in {"hmset", "write"}
    /\ ~(f.pc = "write" /\ Insufficient(f.op, f.account_data.balance, f.amount))
    /\ redis' = [redis EXCEPT ![f.id] = IF f.pc = "hmset" THEN HMSet(@, f.account_type)
                                        ELSE HSetBalance(@, new_balance)]
    /\ serial' = [serial EXCEPT ![f.id] = IF f.pc = "hmset" THEN @
                                          ELSE SerialStep(f.op, @, f.amount)]
    /\ Set(t, IF f.pc = "write" THEN LeaveWith(f, Status("UNKNOWN"))
              ELSE Finish(f, Status("UNKNOWN")))
    /\ Taint(f.id)
    /\ UNCHANGED <<trace, account_locks, locks, lock_dict_lock, calls, initial>>

Next ==
    \E t \in Threads :
        \/ Invoke(t)
        \/ Reject(t)
        \/ CreateAccountExists(t)
        \/ CreateAccountWrite(t)
        \/ GetBalance(t)
        \/ GetAccountLockEnter(t)
        \/ GetAccountLockCheck(t)
        \/ GetAccountLockInsert(t)
        \/ GetAccountLockReturn(t)
        \/ Acquire(t)
        \/ Read(t)
        \/ Refuse(t)
        \/ Write(t)
        \/ Release(t)
        \/ Fault(t)
        \/ FaultAfter(t)

Spec == Init /\ [][Next]_vars

\* server.py:152: a worker of the pool that serves a call keeps running it:
\* whenever it can take a step of its handler it eventually takes one
Step(t) ==
    \/ Reject(t)
    \/ CreateAccountExists(t)
    \/ CreateAccountWrite(t)
    \/ GetBalance(t)
    \/ GetAccountLockEnter(t)
    \/ GetAccountLockCheck(t)
    \/ GetAccountLockInsert(t)
    \/ GetAccountLockReturn(t)
    \/ Acquire(t)
    \/ Read(t)
    \/ Refuse(t)
    \/ Write(t)
    \/ Release(t)
    \/ Fault(t)
    \/ FaultAfter(t)

\* the requests of the runs in which every call is followed to its return:
\* every kind of call, with a rejected, a refused and a not-found one, on the
\* account that is created and on the one that is not
FairRequests ==
    {Request("CreateAccount", "A1", "savings", Fin(0)),
     Request("GetBalance", "A1", "", Fin(0)),
     Request("Deposit", "A1", "", Fin(0)),
     Request("Withdraw", "A1", "", Fin(1)),
     Request("CalculateInterest", "A1", "", Fin(100)),
     Request("Deposit", "ZZZ", "", Fin(1))}

FairInvoke(t) == InvokeOf(t, FairRequests)

FairNext == \E t \in Threads : FairInvoke(t) \/ Step(t)

\* the server starts on an empty store
FairInit == Init /\ redis = [i \in Ids |-> NoHash]

FairSpec == FairInit /\ [][FairNext]_vars /\ \A t \in Threads : WF_vars(Step(t))

\* ------------------------------------------------- the one-at-a-time client
ClientCalls == 4

\* client.py:69-73: the calls of the example run, on one account
ClientRequests ==
    {Request("CreateAccount", "A1", ty, Fin(0)) : ty \in AccountTypes}
    \cup {Request("GetBalance", "A1", "", Fin(0)),
          Request("Deposit", "A1", "", Fin(1000)),
          Request("Withdraw", "A1", "", Fin(500)),
          Request("CalculateInterest", "A1", "", Fin(10))}

\* what the client holds of a call that has returned
Returned(f) ==
    [op |-> f.op, id |-> f.id, account_type |-> f.account_type,
     amount |-> f.amount, result |-> f.result]

\* client.py:16-62, 69-73: each stub call blocks until its reply is there, and
\* only then does the client make its next call; the server serves it on one
\* worker, nothing else runs
ClientCall ==
    /\ ~InFlight(1)
    /\ calls < ClientCalls
    /\ \E r \in ClientRequests :
        /\ Set(1, [Idle EXCEPT !.pc = "call", !.op = r.op, !.id = r.id,
                               !.account_type = r.account_type,
                               !.amount = r.amount,
                               !.existed = HashExists(redis[r.id])])
        /\ log' = [log EXCEPT ![r.id] = Logged(@, 1, r)]
    /\ trace' = IF thread[1].pc = "done" THEN Append(trace, Returned(thread[1]))
                ELSE trace
    /\ calls' = calls + 1
    /\ UNCHANGED <<redis, account_locks, locks, lock_dict_lock, initial, serial>>

\* the server starts on an empty store
InitClient == Init /\ redis = [i \in Ids |-> NoHash]

NextClient ==
    \/ ClientCall
    \/ CreateAccountExists(1)
    \/ CreateAccountWrite(1)
    \/ GetBalance(1)
    \/ GetAccountLockEnter(1)
    \/ GetAccountLockCheck(1)
    \/ GetAccountLockInsert(1)
    \/ GetAccountLockReturn(1)
    \/ Acquire(1)
    \/ Read(1)
    \/ Refuse(1)
    \/ Write(1)
    \/ Release(1)

SpecClient == InitClient /\ [][NextClient]_vars


\* ------------------------------------------------------------------ claims
Existing(h) == HashExists(h)
InSection(t, i) == thread[t].id = i /\ thread[t].pc \in {"read", "write", "release"}
Quiet(i) == \A t \in Threads : ~(InFlight(t) /\ thread[t].id = i)

\* C1: when an account existed with balance 0 and nothing but Deposit(id, 1)
\* calls were ever made on it (none of them hit by a store failure), then once
\* all of them have returned the stored balance is the number of those calls.
C1_NoLostDeposit ==
    \A i \in Ids :
        ( /\ Existing(initial[i])
          /\ BalanceOf(initial[i]) = Fin(0)
          /\ ~log[i].others
          /\ Quiet(i) )
        => BalanceOf(redis[i]) = Fin(log[i].ones)

\* two Deposit(id, 1) calls that overlapped have both returned
C1_Witness ==
    \E i \in Ids :
        /\ Existing(initial[i]) /\ BalanceOf(initial[i]) = Fin(0)
        /\ ~log[i].others /\ log[i].overlap /\ Quiet(i)
        /\ log[i].ones >= 2
        /\ \A t \in Threads : thread[t].id = i /\ thread[t].result.code = "OK"

\* C2: for every id, at most one call is between acquiring and releasing the
\* account lock of that id.
C2_MutualExclusion ==
    \A i \in Ids : \A t, u \in Threads :
        InSection(t, i) /\ InSection(u, i) => t = u

\* one call is inside its locked section while another call for the same id,
\* which went through the registry for the same handle, waits to enter
C2_Witness ==
    \E i \in Ids : \E t, u \in Threads :
        /\ InSection(t, i)
        /\ thread[u].id = i /\ thread[u].pc = "acquire"
        /\ thread[u].account_lock = thread[t].account_lock

\* C3: for an account that existed when the server started, a locked call
\* that is about to write finds the stored balance still equal to the balance
\* it read, and the stored balance always equals the result of applying the
\* locked calls one at a time in the order in which they took the lock.
C3_Serialized ==
    \A i \in Ids :
        Existing(initial[i]) =>
            /\ BalanceOf(redis[i]) = serial[i]
            /\ \A t \in Threads :
                  thread[t].id = i /\ thread[t].pc = "write"
                  => thread[t].account_data.balance = BalanceOf(redis[i])

\* a locked call on such an account has written a changed balance while
\* another call on the same account, invoked while it ran, is in flight
C3_Witness ==
    \E i \in Ids : \E t, u \in Threads :
        /\ Existing(initial[i]) /\ log[i].overlap
        /\ thread[t].id = i /\ thread[t].pc = "release"
        /\ thread[t].result.code = "OK"
        /\ BalanceOf(redis[i]) # BalanceOf(initial[i])
        /\ u # t /\ thread[u].id = i /\ InFlight(u)


\* C4: a CreateAccount that writes where a record exists leaves that record
\* as it is: it changes neither its type nor its balance, so it erases no
\* deposit.
C4_CreateWriteBenign ==
    [][\A t \in Threads :
          ( /\ thread[t].pc = "hmset"
            /\ thread'[t].pc = "done"
            /\ thread'[t].result.code = "OK"
            /\ Existing(redis[thread[t].id]) )
          => redis'[thread[t].id] = redis[thread[t].id]]_vars

\* C5: a CreateAccount with a valid type, invoked when the record exists,
\* takes one step only: it returns ALREADY_EXISTS (or the exception of a store
\* failure) and the store is unchanged by it.
C5_AlreadyExists ==
    [][\A t \in Threads :
          ( /\ thread[t].op = "CreateAccount"
            /\ thread[t].existed
            /\ ~InvalidArgument(thread[t])
            /\ InFlight(t)
            /\ thread'[t] # thread[t] )
          => /\ redis' = redis
             /\ thread'[t].pc = "done"
             /\ \/ thread'[t].result.code = "ALREADY_EXISTS"
                \/ thread'[t].result.code = "UNKNOWN"]_vars

\* a CreateAccount was refused on a record whose balance earlier calls changed
C5_Witness ==
    \E t \in Threads :
        /\ thread[t].op = "CreateAccount" /\ thread[t].existed
        /\ thread[t].pc = "done" /\ thread[t].result.code = "ALREADY_EXISTS"
        /\ BalanceOf(redis[thread[t].id]) # BalanceOf(initial[thread[t].id])

\* C6: a Withdraw that read, under the lock, a balance smaller than its amount
\* returns FAILED_PRECONDITION and its step leaves the store unchanged.
C6_InsufficientFunds ==
    [][\A t \in Threads :
          ( /\ thread[t].op = "Withdraw"
            /\ thread[t].pc = "write"
            /\ FLt(thread[t].account_data.balance, thread[t].amount)
            /\ thread'[t] # thread[t] )
          => /\ redis' = redis
             /\ thread'[t].pc = "release"
             /\ thread'[t].result.code = "FAILED_PRECONDITION"]_vars

\* a Withdraw was refused and the record still holds the balance it read
C6_Witness ==
    \E t \in Threads :
        /\ thread[t].op = "Withdraw" /\ thread[t].pc = "release"
        /\ thread[t].result.code = "FAILED_PRECONDITION"
        /\ FLt(thread[t].account_data.balance, thread[t].amount)
        /\ BalanceOf(redis[thread[t].id]) = thread[t].account_data.balance

\* C7: the stored balance of every existing account is >= 0.
C7_NonNegative ==
    \A i \in Ids : Existing(redis[i]) => FLe(Fin(0), BalanceOf(redis[i]))

\* C8: a Lock that is held is held by a call inside its locked section; hence
\* the lock of an id for which no locked call is in flight is free.
C8_LockReleased ==
    /\ \A h \in 1..Len(locks) :
          locks[h] # 0 => /\ thread[locks[h]].pc \in {"read", "write", "release"}
                          /\ thread[locks[h]].account_lock = h
    /\ \A i \in Ids :
          ( /\ account_locks[i] # 0
            /\ \A t \in Threads :
                  ~(InFlight(t) /\ thread[t].id = i /\ thread[t].op \in Locked) )
          => locks[account_locks[i]] = 0

\* a locked call ended by a store failure and one ended by a refusal or by
\* NOT_FOUND have returned, and their locks are free
C8_Witness ==
    \E t, u \in Threads :
        /\ thread[t].pc = "done" /\ thread[t].op \in Locked
        /\ thread[t].result.code = "UNKNOWN"
        /\ locks[account_locks[thread[t].id]] = 0
        /\ thread[u].pc = "done" /\ thread[u].op \in Locked
        /\ thread[u].result.code \in {"NOT_FOUND", "FAILED_PRECONDITION"}
        /\ locks[account_locks[thread[u].id]] = 0

\* C9: a Deposit or Withdraw with amount <= 0, or a CalculateInterest with
\* rate <= 0, takes one step only: it returns INVALID_ARGUMENT, and neither the
\* store, nor the lock registry, nor any lock is changed by it.
C9_InvalidArgument ==
    [][\A t \in Threads :
          ( /\ thread[t].op \in Locked
            /\ FLe(thread[t].amount, Fin(0))
            /\ thread[t].pc = "call"
            /\ thread'[t] # thread[t] )
          => /\ thread'[t].pc = "done"
             /\ thread'[t].result.code = "INVALID_ARGUMENT"
             /\ UNCHANGED <<redis, account_locks, locks, lock_dict_lock>>]_vars

\* a Deposit, Withdraw or CalculateInterest was rejected for its argument on an
\* existing account that has no registry entry
C9_Witness ==
    \E t \in Threads :
        /\ thread[t].op \in Locked /\ thread[t].pc = "done"
        /\ thread[t].result.code = "INVALID_ARGUMENT"
        /\ Existing(redis[thread[t].id])
        /\ account_locks[thread[t].id] = 0

NeverCreated(i) == ~Existing(initial[i]) /\ ~log[i].creates

\* C10: an id that had no record and for which CreateAccount was never
\* invoked has no record, and GetBalance and the locked calls with a valid
\* argument on it end with NOT_FOUND (or with the exception of a store failure).
C10_NotFound ==
    \A i \in Ids :
        NeverCreated(i) =>
            /\ ~Existing(redis[i])
            /\ \A t \in Threads :
                  ( /\ thread[t].id = i
                    /\ thread[t].op \in Locked \cup {"GetBalance"}
                    /\ ~InvalidArgument(thread[t])
                    /\ thread[t].pc \in {"write", "release", "done"} )
                  => /\ thread[t].pc # "write"
                     /\ \/ thread[t].result.code = "NOT_FOUND"
                        \/ thread[t].result.code = "UNKNOWN"

\* a GetBalance and a locked call on such an id have both returned NOT_FOUND
C10_Witness ==
    \E t, u \in Threads :
        /\ thread[t].op = "GetBalance" /\ thread[u].op \in Locked
        /\ NeverCreated(thread[t].id) /\ thread[u].id = thread[t].id
        /\ thread[t].pc = "done" /\ thread[u].pc = "done"
        /\ thread[t].result.code = "NOT_FOUND"
        /\ thread[u].result.code = "NOT_FOUND"

\* the call before the one the client is in, as the client got it back
Last == trace[Len(trace)]
AfterOk(op) == Len(trace) > 0 /\ Last.op = op /\ Last.result.code = "OK"

\* C11: with one call at a time, a Deposit of an amount above 0 on an account
\* that exists returns success; the balance it returns is the balance it found
\* plus the amount (the balance a GetBalance just before it returned, plus the
\* amount), that same value is what the store holds when the lock is given
\* back, and a GetBalance made next returns exactly that value.
C11_DepositThenBalance ==
    LET f == thread[1] IN
    /\ (f.op = "Deposit" /\ f.pc = "release" /\ f.result.code = "OK") =>
        /\ f.result.balance = FAdd(f.account_data.balance, f.amount)
        /\ BalanceOf(redis[f.id]) = f.result.balance
        /\ AfterOk("GetBalance") =>
               f.result.balance = FAdd(Last.result.balance, f.amount)
    /\ (f.op = "Deposit" /\ f.pc = "done" /\ f.existed /\ FLt(Fin(0), f.amount)) =>
        f.result.code = "OK"
    /\ (f.op = "GetBalance" /\ f.pc = "done" /\ AfterOk("Deposit")) =>
        f.result = Ok(Last.result.balance)

\* a GetBalance has returned 2000 right after a Deposit of 1000 that had
\* found the balance 1000
C11_Witness ==
    /\ thread[1].op = "GetBalance"
    /\ thread[1].pc = "done"
    /\ AfterOk("Deposit")
    /\ Last.amount = Fin(1000)
    /\ thread[1].result = Ok(Fin(2000))

\* the example run: create A1 as savings, deposit 1000, withdraw 500, and the
\* CalculateInterest call at rate 10 has returned
Scenario ==
    /\ Len(trace) = 3
    /\ trace[1].op = "CreateAccount" /\ trace[1].account_type = "savings"
    /\ trace[2].op = "Deposit" /\ trace[2].amount = Fin(1000)
    /\ trace[3].op = "Withdraw" /\ trace[3].amount = Fin(500)
    /\ thread[1].op = "CalculateInterest" /\ thread[1].amount = Fin(10)
    /\ thread[1].pc = "done"

\* b + b * (r / 100): the whole rate, applied once
WithInterest(b, r) == Fin(b.v + (b.v * r.v) \div 100)

C13_CreateThenBalance ==
    LET f == thread[1] IN
    (/\ f.op = "GetBalance"
     /\ f.pc = "done"
     /\ AfterOk("CreateAccount")
     /\ Last.id = f.id) =>
        /\ Last.account_type \in {"savings", "checking"}
        /\ f.result = Ok(Fin(0))
        /\ redis[f.id] = HMSet(NoHash, Last.account_type)

\* a GetBalance has returned right after the CreateAccount that made the
\* record as a checking account
C13_Witness ==
    /\ thread[1].op = "GetBalance"
    /\ thread[1].pc = "done"
    /\ Len(trace) = 1
    /\ AfterOk("CreateAccount")
    /\ Last.account_type = "checking"
    /\ thread[1].result.code = "OK"

\* C14: calls on different ids never wait for each other's account lock.
\* Two ids never have the same Lock; a call that stands before an account
\* lock it cannot take has the Lock of its own id, and the holder is a call on
\* that same id inside its locked section; so whenever no call on its id is
\* in the locked section, the lock it waits for is free, whatever locks the
\* calls on other ids hold.
C14_NoCrossBlocking ==
    /\ \A a \in Ids : \A b \in Ids \ {a} :
          account_locks[a] # 0 => account_locks[a] # account_locks[b]
    /\ \A t \in Threads :
          thread[t].pc = "acquire" =>
             /\ thread[t].account_lock = account_locks[thread[t].id]
             /\ locks[thread[t].account_lock] # 0 =>
                    InSection(locks[thread[t].account_lock], thread[t].id)

\* a call on A1 and a call on ZZZ hold their account locks at the same time
C14_Witness ==
    \E t \in Threads : \E u \in Threads :
        /\ InSection(t, "A1") /\ locks[account_locks["A1"]] = t
        /\ InSection(u, "ZZZ") /\ locks[account_locks["ZZZ"]] = u

HoldsAccountLock(t, h) == locks[h] = t

\* C15: under fair scheduling of the workers every call that was invoked
\* returns (so no state is reached in which calls wait for each other for
\* ever); a worker that holds or waits for an account lock does not hold the
\* registry lock, and no worker holds two locks at once.
C15_EveryCallReturns ==
    /\ [](\A t \in Threads :
            /\ thread[t].pc \in {"acquire", "read", "write", "release"} =>
                  lock_dict_lock # t
            /\ \A h \in 1..Len(locks) : \A g \in 1..Len(locks) :
                  HoldsAccountLock(t, h) /\ HoldsAccountLock(t, g) => h = g)
    /\ \A t \in Threads : InFlight(t) ~> ~InFlight(t)

\* calls that ran at the same time on one id and went through the same two
\* locks have all returned what the handler returns inside its locked section
C15_Witness ==
    /\ \A t \in Threads :
          /\ thread[t].pc = "done"
          /\ thread[t].op \in Locked
          /\ thread[t].id = "A1"
          /\ thread[t].result.code \in {"OK", "NOT_FOUND", "FAILED_PRECONDITION"}
    /\ log["A1"].overlap
    /\ \A h \in 1..Len(locks) : locks[h] = 0
    /\ lock_dict_lock = 0

\* C16: a Withdraw that found a record with balance b and has an amount with
\* 0 < amount <= b is not refused: unless the store failed under it, it
\* returns success with b - amount, and (no CreateAccount having been made
\* on the id) the store holds b - amount when the lock is given back.  This
\* includes amount = b, which leaves the balance 0.
C16_WithdrawWithinBalance ==
    \A t \in Threads :
        LET f == thread[t] IN
        (/\ f.op = "Withdraw"
         /\ f.pc = "release"
         /\ f.account_data.tag = "data"
         /\ FLt(Fin(0), f.amount)
         /\ FLe(f.amount, f.account_data.balance)
         /\ f.result.code # "UNKNOWN") =>
            /\ f.result = Ok(FSub(f.account_data.balance, f.amount))
            /\ ~log[f.id].creates =>
                   BalanceOf(redis[f.id]) = FSub(f.account_data.balance, f.amount)

\* a Withdraw of 1 that found the balance 1 has returned success with 0 and
\* the store holds 0
C16_Witness ==
    \E t \in Threads :
        /\ thread[t].op = "Withdraw"
        /\ thread[t].pc = "release"
        /\ thread[t].account_data.tag = "data"
        /\ thread[t].account_data.balance = thread[t].amount
        /\ thread[t].amount = Fin(1)
        /\ thread[t].result = Ok(Fin(0))
        /\ BalanceOf(redis[thread[t].id]) = Fin(0)

\* C17: a GetBalance is one read of the store: the step that serves it
\* leaves the store, the registry, the account locks and the registry lock as
\* they were and ends the call, and when it returns success the balance it
\* returns is the balance stored at that moment; that step can be taken in
\* every state in which the call stands, also while a Deposit, Withdraw or
\* CalculateInterest on the same id holds the account lock.
C17_GetBalanceReadsOnly ==
    [][\A t \in Threads :
          (thread[t].op = "GetBalance" /\ thread[t].pc = "call") =>
             /\ ENABLED GetBalance(t)
             /\ thread'[t] # thread[t] =>
                   /\ UNCHANGED <<redis, account_locks, locks, lock_dict_lock>>
                   /\ thread'[t].pc = "done"
                   /\ thread'[t].result.code = "OK" =>
                         /\ Existing(redis[thread[t].id])
                         /\ thread'[t].result.balance =
                               BalanceOf(redis[thread[t].id])]_vars

\* a GetBalance has returned the balance while a call on the same id that
\* was invoked before it is still inside its locked section
C17_Witness ==
    /\ thread[2].op = "GetBalance"
    /\ thread[2].pc = "done"
    /\ thread[2].result.code = "OK"
    /\ InSection(1, thread[2].id)
    /\ locks[account_locks[thread[2].id]] = 1

\* C18: a record that exists still exists after every step and keeps its
\* account type; the only steps that change it are the writes of Deposit,
\* Withdraw and CalculateInterest calls on its id, and they change nothing
\* but the balance.
C18_RecordStable ==
    [][\A i \in Ids :
          Existing(redis[i]) =>
             /\ Existing(redis'[i])
             /\ redis'[i].account_type = redis[i].account_type
             /\ redis'[i] # redis[i] =>
                   \E t \in Threads :
                      /\ thread[t].op \in Locked
                      /\ thread[t].id = i
                      /\ thread[t].pc = "write"
                      /\ thread'[t] # thread[t]]_vars

\* C19: the argument check comes before anything else.  A call whose argument
\* is invalid (a CreateAccount type outside savings and checking, a Deposit or
\* Withdraw amount <= 0, a CalculateInterest rate <= 0) never gets past its
\* first step, and once it has returned its result is INVALID_ARGUMENT,
\* whether or not the id had a record when the call came in: never
\* ALREADY_EXISTS, never NOT_FOUND.
C19_ValidationFirst ==
    \A t \in Threads :
        (\/ /\ thread[t].op = "CreateAccount"
            /\ thread[t].account_type \notin {"savings", "checking"}
         \/ /\ thread[t].op \in {"Deposit", "Withdraw", "CalculateInterest"}
            /\ FLe(thread[t].amount, Fin(0))) =>
            /\ thread[t].pc \in {"call", "done"}
            /\ thread[t].pc = "done" =>
                  thread[t].result = Status("INVALID_ARGUMENT")

\* a CreateAccount of type gold on an id that has a record and a Deposit of
\* 0 on an id that has none were both answered INVALID_ARGUMENT
C19_Witness ==
    \E t \in Threads : \E u \in Threads :
        /\ thread[t].op = "CreateAccount" /\ thread[t].pc = "done"
        /\ thread[t].account_type = "gold"
        /\ thread[t].existed /\ Existing(redis[thread[t].id])
        /\ thread[t].result.code = "INVALID_ARGUMENT"
        /\ thread[u].op = "Deposit" /\ thread[u].pc = "done"
        /\ FLe(thread[u].amount, Fin(0))
        /\ ~thread[u].existed /\ ~Existing(redis[thread[u].id])
        /\ thread[u].result.code = "INVALID_ARGUMENT"

Registered == {i \in Ids : account_locks[i] # 0}

\* C20: the registry has one Lock per registered id and no Lock was ever made
\* beyond those; a step never removes or replaces an entry; the only step
\* that adds one is the insert of a Deposit, Withdraw or CalculateInterest
\* call that passed the argument check, for an id that had no entry, whether
\* or not the id has a record; and every call that has come back from the
\* lookup has the handle registered for its id.
C20_RegistryGrows ==
    [][/\ \A i \in Ids :
            /\ account_locks[i] # 0 => account_locks'[i] = account_locks[i]
            /\ account_locks'[i] # account_locks[i] =>
                  \E t \in Threads :
                     /\ thread[t].id = i
                     /\ thread[t].op \in {"Deposit", "Withdraw", "CalculateInterest"}
                     /\ ~FLe(thread[t].amount, Fin(0))
                     /\ thread[t].pc = "gal_insert"
                     /\ thread'[t].pc = "gal_return"
       /\ Len(locks') = Cardinality(Registered')
       /\ \A i \in Registered' : \A j \in Registered' :
             account_locks'[i] = account_locks'[j] => i = j
       /\ \A t \in Threads :
             thread'[t].pc \in {"acquire", "read", "write", "release"} =>
                thread'[t].account_lock = account_locks'[thread'[t].id]]_vars

\* A1 has no record but is the one registered id, and two calls on A1 that
\* ran at the same time have the same handle
C20_Witness ==
    /\ thread[1].id = "A1" /\ thread[2].id = "A1"
    /\ thread[1].account_lock # 0
    /\ thread[1].account_lock = thread[2].account_lock
    /\ ~Existing(redis["A1"])
    /\ Registered = {"A1"}

====
